---- MODULE Spec2Model ----
(***************************************************************************)
(* EditMaster.Timecode (src/EditMaster.py): a mutable value object holding *)
(* an absolute frame count and a frame rate, with derived hour / minute /  *)
(* second / frame views, a timecode-string view and arithmetic and         *)
(* comparison operators.                                                   *)
(*                                                                         *)
(* Numbers.  The source is Python 2: total_frames and fps start as ints,   *)
(* but the fpm / fph setters store fps = v/60.0 and v/3600.0, so fps (and, *)
(* after a frames write, total_frames) can be fractional.  Every Python    *)
(* number is represented here by the integer  value * Scale,  i.e. in      *)
(* units of 1/Scale; inputs are restricted to values that are exact at     *)
(* that resolution.  Num(n) embeds a whole number, Times / FloorDiv / Mod  *)
(* are Python's *, // and % on that representation.                        *)
(*                                                                         *)
(* Strings are sequences of one-character strings.                         *)
(***************************************************************************)
EXTENDS Integers, Sequences, FiniteSets, TLC

VARIABLES tc, rhs, last, nops, rt

vars == <<tc, rhs, last, nops, rt>>

-----------------------------------------------------------------------------
(* Bounds of the model *)

\* resolution of the number representation: values are multiples of 1/Scale
Scale == 2

\* number of operations applied to one Timecode in a behaviour of Spec
MaxOps == 3

-----------------------------------------------------------------------------
(* Python numbers *)

Num(n) == n * Scale

IsWhole(x) == x % Scale = 0

\* int(x): truncation toward zero
int(x) == IF x >= 0 THEN x \div Scale ELSE -((-x) \div Scale)

\* x * y (exact: in every use one of the factors is a whole number)
Times(x, y) == (x * y) \div Scale

\* x // y and x % y: floor division, remainder with the sign of the divisor
IntFloorDiv(a, b) == IF b > 0 THEN a \div b ELSE (-a) \div (-b)

FloorDiv(x, y) == Num(IntFloorDiv(x, y))

Mod(x, y) == x - y * IntFloorDiv(x, y)

\* None, and a present number
None == [isNone |-> TRUE, v |-> 0]

Some(x) == [isNone |-> FALSE, v |-> x]

\* truth value of an optional number: None and 0 are false
Truthy(o) == ~o.isNone /\ o.v # 0

-----------------------------------------------------------------------------
(* Strings *)

DigitChars == <<"0", "1", "2", "3", "4", "5", "6", "7", "8", "9">>

IsDigit(c) == \E d \in 1..10 : DigitChars[d] = c

DigitVal(c) == (CHOOSE d \in 1..10 : DigitChars[d] = c) - 1

\* str.split(':')
RECURSIVE SplitFrom(_, _, _)
SplitFrom(s, i, cur) ==
    IF i > Len(s) THEN <<cur>>
    ELSE IF s[i] = ":" THEN <<cur>> \o SplitFrom(s, i + 1, <<>>)
    ELSE SplitFrom(s, i + 1, Append(cur, s[i]))

Split(s) == SplitFrom(s, 1, <<>>)

\* the elements left in the order written
NotReversed(l) == l

\* list.reverse()
Reverse(l) == [i \in 1..Len(l) |-> l[Len(l) + 1 - i]]

\* int(element) accepts an optional sign followed by one or more digits
IsNumeral(e) ==
    LET body == IF Len(e) > 0 /\ e[1] \in {"-", "+"} THEN Tail(e) ELSE e
    IN  Len(body) > 0 /\ \A i \in 1..Len(body) : IsDigit(body[i])

RECURSIVE DigitsValue(_)
DigitsValue(ds) ==
    IF Len(ds) = 0 THEN 0
    ELSE 10 * DigitsValue(SubSeq(ds, 1, Len(ds) - 1)) + DigitVal(ds[Len(ds)])

IntOfStr(e) ==
    IF e[1] = "-" THEN -DigitsValue(Tail(e))
    ELSE IF e[1] = "+" THEN DigitsValue(Tail(e))
    ELSE DigitsValue(e)

\* decimal digits of a natural number
RECURSIVE Digits(_)
Digits(n) ==
    IF n < 10 THEN <<DigitChars[n + 1]>>
    ELSE Digits(n \div 10) \o <<DigitChars[(n % 10) + 1]>>

\* '%02d' % x : int(x), sign first, zero-padded to a minimum width of 2
Fmt02d(x) ==
    LET n == int(x)
    IN  IF n < 0 THEN <<"-">> \o Digits(-n)
        ELSE IF n < 10 THEN <<"0">> \o Digits(n)
        ELSE Digits(n)

-----------------------------------------------------------------------------
(* Outcomes of an operation: a value of one of four kinds, or an exception *)

NoFrames == [total_frames |-> 0, fps |-> 0]

Outcome(k, t, n, b, e) == [kind |-> k, tcv |-> t, num |-> n, bool |-> b, exc |-> e]

RetTimecode(t) == Outcome("Timecode", t, 0, FALSE, "")

RetNum(n) == Outcome("num", NoFrames, n, FALSE, "")

RetBool(b) == Outcome("bool", NoFrames, 0, b, "")

RetNone == Outcome("None", NoFrames, 0, FALSE, "")

Raise(e) == Outcome("raise", NoFrames, 0, FALSE, e)

-----------------------------------------------------------------------------
(* Timecode *)

\* the fpm and fph properties (getters)
fpm(self) == Times(self.fps, Num(60))

fph(self) == Times(self.fps, Num(3600))

\* _tc_component_from_timebases: (amount, leftover_frames)
RECURSIVE WhittleFrom(_, _, _, _)
WhittleFrom(base_list, i, amount, leftover_frames) ==
    IF i > Len(base_list) THEN <<amount, leftover_frames>>
    ELSE WhittleFrom(base_list, i + 1,
                     Some(FloorDiv(leftover_frames, base_list[i])),
                     Mod(leftover_frames, base_list[i]))

_tc_component_from_timebases(self, base_list) ==
    WhittleFrom(base_list, 1, None, self.total_frames)

get_frames(self) ==
    _tc_component_from_timebases(self, <<fph(self), fpm(self), self.fps>>)[2]

_getSeconds(self) ==
    _tc_component_from_timebases(self, <<fph(self), fpm(self), self.fps>>)[1].v

\* minutes taken from the whole frame count, the hours not removed first
_get_minutes_of_total(self) ==
    _tc_component_from_timebases(self, <<fpm(self)>>)[1].v

_get_minutes(self) ==
    _tc_component_from_timebases(self, <<fph(self), fpm(self)>>)[1].v

_get_hours(self) ==
    _tc_component_from_timebases(self, <<fph(self)>>)[1].v

\* _frame_count_for_timecode: a number, or the exception the loop raises
RECURSIVE SumElements(_, _, _, _)
SumElements(tcElements, multipliers, i, frames) ==
    IF i > Len(tcElements) THEN RetNum(frames)
    ELSE IF i > Len(multipliers) THEN Raise("IndexError")
    ELSE IF ~IsNumeral(tcElements[i]) THEN Raise("ValueError")
    ELSE SumElements(tcElements, multipliers, i + 1,
                     frames + Times(Num(IntOfStr(tcElements[i])), multipliers[i]))

_frame_count_for_timecode(self, timecode, fps) ==
    LET fps_  == IF Truthy(fps) THEN fps.v ELSE self.fps
        fpm_  == Times(fps_, Num(60))
        fph_  == Times(fpm_, Num(60))
    IN  SumElements(Reverse(Split(timecode)), <<Num(1), fps_, fpm_, fph_>>, 1, Num(0))

\* the frames / seconds / minutes / hours property setters
_set_frames(self, frames) ==
    LET newFrames == self.total_frames - get_frames(self)
    IN  [self EXCEPT !.total_frames = newFrames + frames]

\* the seconds written added without the old seconds being removed
_set_seconds_added(self, seconds) ==
    [self EXCEPT !.total_frames = self.total_frames + Times(seconds, self.fps)]

_set_seconds(self, seconds) ==
    LET oldSeconds == Times(_getSeconds(self), self.fps)
        newSeconds == Times(seconds, self.fps)
    IN  [self EXCEPT !.total_frames = self.total_frames - oldSeconds + newSeconds]

\* minutes weighted by frames per second instead of frames per minute
_set_minutes_by_fps(self, minutes) ==
    LET oldMinutes == Times(_get_minutes(self), self.fps)
        newMinutes == Times(minutes, self.fps)
    IN  [self EXCEPT !.total_frames = self.total_frames - oldMinutes + newMinutes]

_set_minutes(self, minutes) ==
    LET oldMinutes == Times(_get_minutes(self), fpm(self))
        newMinutes == Times(minutes, fpm(self))
    IN  [self EXCEPT !.total_frames = self.total_frames - oldMinutes + newMinutes]

_set_hours(self, hours) ==
    LET oldHours == Times(_get_hours(self), fph(self))
        newHours == Times(hours, fph(self))
    IN  [self EXCEPT !.total_frames = self.total_frames - oldHours + newHours]

\* the timecode property: '%02d:%02d:%02d:%02d' % (hours, minutes, seconds, frames)
_get_timecode(self) ==
    Fmt02d(_get_hours(self)) \o <<":">> \o Fmt02d(_get_minutes(self)) \o <<":">>
        \o Fmt02d(_getSeconds(self)) \o <<":">> \o Fmt02d(get_frames(self))

\* the timecode setter calls _frame_count_for_timecode as a module-level name,
\* which does not exist: the lookup raises before anything is assigned
_set_timecode(self, timecode) == Raise("NameError")

\* x / y with a float divisor (exact on the inputs drawn below)
TrueDiv(x, y) == (x * Scale) \div y

IsExact(x, y) == (x * Scale) % y = 0

\* plain attribute write of fps, and the fpm and fph property setters
set_fps(self, v) == [self EXCEPT !.fps = v]

\* the rate written and the frame count rescaled to keep the fields read
set_fpm_keeping_fields(self, v) ==
    LET fps == TrueDiv(v, Num(60))
    IN  [total_frames |-> Times(_get_hours(self), Times(fps, Num(3600)))
                              + Times(_get_minutes(self), Times(fps, Num(60)))
                              + Times(_getSeconds(self), fps) + get_frames(self),
         fps |-> fps]

set_fpm(self, v) == [self EXCEPT !.fps = TrueDiv(v, Num(60))]

set_fph(self, v) == [self EXCEPT !.fps = TrueDiv(v, Num(3600))]

\* total_frames taken whenever it is given, 0 included
__init__if_given(timecode, fps, total_frames) ==
    IF ~total_frames.isNone
    THEN RetTimecode([total_frames |-> total_frames.v, fps |-> fps])
    ELSE LET count == _frame_count_for_timecode([total_frames |-> 0, fps |-> fps],
                                                timecode, None)
         IN  IF count.kind = "raise" THEN count
             ELSE RetTimecode([total_frames |-> count.num, fps |-> fps])

\* Timecode.__init__: the new object, or the exception parsing raises
__init__(timecode, fps, total_frames) ==
    IF Truthy(total_frames)
    THEN RetTimecode([total_frames |-> total_frames.v, fps |-> fps])
    ELSE LET count == _frame_count_for_timecode([total_frames |-> 0, fps |-> fps],
                                                timecode, None)
         IN  IF count.kind = "raise" THEN count
             ELSE RetTimecode([total_frames |-> count.num, fps |-> fps])

-----------------------------------------------------------------------------
(* Inputs *)

DefaultTimecode == <<"0", "1", ":", "0", "0", ":", "0", "0", ":", "0", "0">>

DefaultFps == 24

CtorArgs(timecode, fps, total_frames) ==
    [timecode |-> timecode, fps |-> fps, total_frames |-> total_frames]

DefaultArgs == CtorArgs(DefaultTimecode, Num(DefaultFps), None)

New(args) == __init__(args.timecode, args.fps, args.total_frames)

CtorStrings ==
    { DefaultTimecode,
      <<"0", "0", ":", "0", "0", ":", "0", "5", ":", "0", "4">>,
      <<"0", "4", ":", "0", "3", ":", "2", "2">>,
      <<"0", "0", ":", "x", "0">> }

CtorFps == { Num(1), Num(DefaultFps) }

CtorTotals == { None, Some(Num(0)), Some(Num(-1)), Some(Num(240)) }

HoursWritten == { Num(-1), Num(0), Num(2) }

MinutesWritten == { Num(0), Num(10), Num(59), Num(70), Num(-5) }

SecondsWritten == { Num(0), Num(5), Num(59), Num(75) }

FramesWritten == { Num(0), Num(4), Num(23), Num(30), Num(-1) }

FpsWritten == { Num(DefaultFps), Num(30) }

FpmWritten == { v \in { Num(80), Num(90), Num(1440), Num(1800) } : IsExact(v, Num(60)) }

FphWritten == { v \in { Num(4800), Num(5400), Num(86400) } : IsExact(v, Num(3600)) }

-----------------------------------------------------------------------------
(* One Timecode object: construction, component writes, frame-rate writes *)

NoOperand == [type |-> "none"]

RtIdle == [stage |-> "idle"]

Did(op, arg, pre, out) == [op |-> op, arg |-> arg, pre |-> pre, out |-> out]

Init ==
    /\ tc = New(DefaultArgs).tcv
    /\ rhs = NoOperand
    /\ rt = RtIdle
    /\ nops = 0
    /\ last = Did("new", DefaultArgs, NoFrames, New(DefaultArgs))

Step(op, arg, tcNew, out) ==
    /\ nops < MaxOps
    /\ nops' = nops + 1
    /\ tc' = tcNew
    /\ last' = Did(op, arg, tc, out)
    /\ UNCHANGED <<rhs, rt>>

Construct ==
    \E timecode \in CtorStrings, fps \in CtorFps, total_frames \in CtorTotals :
        LET args == CtorArgs(timecode, fps, total_frames)
            out  == New(args)
        IN  Step("new", args, IF out.kind = "raise" THEN tc ELSE out.tcv, out)

SetFrames == \E v \in FramesWritten : Step("frames", v, _set_frames(tc, v), RetNone)

SetSeconds == \E v \in SecondsWritten : Step("seconds", v, _set_seconds(tc, v), RetNone)

SetMinutes == \E v \in MinutesWritten : Step("minutes", v, _set_minutes(tc, v), RetNone)

SetHours == \E v \in HoursWritten : Step("hours", v, _set_hours(tc, v), RetNone)

SetTimecode == \E s \in CtorStrings : Step("timecode", s, tc, _set_timecode(tc, s))

SetFps == \E v \in FpsWritten : Step("fps", v, set_fps(tc, v), RetNone)

SetFpm == \E v \in FpmWritten : Step("fpm", v, set_fpm(tc, v), RetNone)

SetFph == \E v \in FphWritten : Step("fph", v, set_fph(tc, v), RetNone)

Next ==
    \/ Construct
    \/ SetFrames
    \/ SetSeconds
    \/ SetMinutes
    \/ SetHours
    \/ SetTimecode
    \/ SetFps
    \/ SetFpm
    \/ SetFph

Spec == Init /\ [][Next]_vars

-----------------------------------------------------------------------------
(* Operators *)

Operand(type, tcv, args, num, str) ==
    [type |-> type, tcv |-> tcv, args |-> args, num |-> num, str |-> str]

\* a Timecode operand, remembered with the arguments it was constructed from
TimecodeOperand(args) == Operand("Timecode", New(args).tcv, args, 0, <<>>)

IntOperand(n) == Operand("int", NoFrames, DefaultArgs, n, <<>>)

StrOperand(str) == Operand("str", NoFrames, DefaultArgs, 0, str)

\* an operand of a type no operator accepts
ListOperand == Operand("list", NoFrames, DefaultArgs, 0, <<>>)

_frames_from_unknown(self, something) ==
    IF something.type = "str"
    THEN _frame_count_for_timecode(self, something.str, None)
    ELSE IF something.type = "int" THEN RetNum(something.num)
    ELSE IF something.type = "Timecode" THEN RetNum(something.tcv.total_frames)
    ELSE Raise("TimecodeArithmeticException")

\* Timecode(fps = fps, total_frames = total_frames)
NewFromFrames(fps, total_frames) == __init__(DefaultTimecode, fps, Some(total_frames))

__add__(self, other) ==
    LET frames == _frames_from_unknown(self, other)
    IN  IF frames.kind = "raise" THEN frames
        ELSE NewFromFrames(self.fps, self.total_frames + frames.num)

__sub__(self, other) ==
    LET frames == _frames_from_unknown(self, other)
    IN  IF frames.kind = "raise" THEN frames
        ELSE NewFromFrames(self.fps, self.total_frames - frames.num)

__mul__(self, other) ==
    IF other.type = "int"
    THEN NewFromFrames(self.fps, Times(self.total_frames, other.num))
    ELSE Raise("TimecodeArithmeticException")

__div__(self, other) ==
    LET otherFrames == _frames_from_unknown(self, other)
    IN  IF otherFrames.kind = "raise" THEN otherFrames
        ELSE IF otherFrames.num = 0 THEN Raise("ZeroDivisionError")
        ELSE LET divFrames == FloorDiv(self.total_frames, otherFrames.num)
             IN  IF other.type = "Timecode" THEN RetNum(Num(int(divFrames)))
                 ELSE NewFromFrames(self.fps, Num(int(divFrames)))

__mod__(self, other) ==
    IF other.type # "Timecode" THEN Raise("TimecodeArithmeticException")
    ELSE LET otherFrames == _frames_from_unknown(self, other)
         IN  IF otherFrames.num = 0 THEN Raise("ZeroDivisionError")
             ELSE NewFromFrames(self.fps, Mod(self.total_frames, otherFrames.num))

__lt__(self, other) ==
    IF other.type # "Timecode" THEN Raise("TimecodeArithmeticException")
    ELSE RetBool(self.total_frames < other.tcv.total_frames)

__le__(self, other) ==
    IF other.type # "Timecode" THEN Raise("TimecodeArithmeticException")
    ELSE RetBool(self.total_frames <= other.tcv.total_frames)

\* equality of the frame count and of the rate
__eq__with_fps(self, other) ==
    IF other.type # "Timecode" THEN Raise("TimecodeArithmeticException")
    ELSE RetBool(self.total_frames = other.tcv.total_frames /\ self.fps = other.tcv.fps)

__eq__(self, other) ==
    IF other.type # "Timecode" THEN Raise("TimecodeArithmeticException")
    ELSE RetBool(self.total_frames = other.tcv.total_frames)

__ne__(self, other) ==
    IF other.type # "Timecode" THEN Raise("TimecodeArithmeticException")
    ELSE RetBool(self.total_frames # other.tcv.total_frames)

__gt__(self, other) ==
    IF other.type # "Timecode" THEN Raise("TimecodeArithmeticException")
    ELSE RetBool(self.total_frames > other.tcv.total_frames)

__ge__(self, other) ==
    IF other.type # "Timecode" THEN Raise("TimecodeArithmeticException")
    ELSE RetBool(self.total_frames >= other.tcv.total_frames)

-----------------------------------------------------------------------------
(* A left operand, a right operand, and the operators applied to them *)

ZeroTimecode == <<"0", "0", ":", "0", "0", ":", "0", "0", ":", "0", "0">>

OperandArgs ==
    { DefaultArgs,
      CtorArgs(ZeroTimecode, Num(DefaultFps), None),
      CtorArgs(<<"0", "0", ":", "0", "1", ":", "0", "0", ":", "0", "0">>, Num(DefaultFps), None),
      CtorArgs(<<"0", "0", ":", "0", "0", ":", "3", "0", ":", "0", "0">>, Num(DefaultFps), None),
      CtorArgs(DefaultTimecode, Num(DefaultFps), Some(Num(0))),
      CtorArgs(DefaultTimecode, Num(DefaultFps), Some(Num(240))),
      CtorArgs(DefaultTimecode, Num(30), Some(Num(240))),
      CtorArgs(DefaultTimecode, Num(30), Some(Num(-7))) }

RightOperands ==
    { TimecodeOperand(args) : args \in OperandArgs }
        \cup { IntOperand(Num(n)) : n \in {0, 5, 7, -240} }
        \cup { StrOperand(str) : str \in { <<"0", "0", ":", "0", "0", ":", "0", "0", ":", "1", "2">>,
                                            <<"-", "7">>,
                                            <<"1", "2", "f">> } }
        \cup { ListOperand }

InitOps ==
    /\ tc \in { New(args).tcv : args \in OperandArgs }
    /\ rhs \in RightOperands
    /\ rt = RtIdle
    /\ nops = 0
    /\ last = Did("init", NoOperand, tc, RetNone)

Apply(op, out) ==
    /\ last' = Did(op, rhs, tc, out)
    /\ UNCHANGED <<tc, rhs, nops, rt>>

Add == Apply("add", __add__(tc, rhs))

Sub == Apply("sub", __sub__(tc, rhs))

Mul == Apply("mul", __mul__(tc, rhs))

Div == Apply("div", __div__(tc, rhs))

ModOp == Apply("mod", __mod__(tc, rhs))

Lt == Apply("lt", __lt__(tc, rhs))

Le == Apply("le", __le__(tc, rhs))

Eq == Apply("eq", __eq__(tc, rhs))

Ne == Apply("ne", __ne__(tc, rhs))

Gt == Apply("gt", __gt__(tc, rhs))

Ge == Apply("ge", __ge__(tc, rhs))

NextOps ==
    \/ Add
    \/ Sub
    \/ Mul
    \/ Div
    \/ ModOp
    \/ Lt
    \/ Le
    \/ Eq
    \/ Ne
    \/ Gt
    \/ Ge

SpecOps == InitOps /\ [][NextOps]_vars

-----------------------------------------------------------------------------
(* Round trip: a timecode string parsed by the constructor, then rendered *)

TensDigits == {"0", "2", "6"}

OnesDigits == {"0", "9"}

RoundTripStrings ==
    { <<h1, h2, ":", m1, m2, ":", s1, s2, ":", f1, f2>> :
        h1 \in TensDigits, h2 \in OnesDigits, m1 \in TensDigits, m2 \in OnesDigits,
        s1 \in TensDigits, s2 \in OnesDigits, f1 \in TensDigits, f2 \in OnesDigits }

RoundTripFps == { Num(1), Num(DefaultFps), Num(30) }

Rt(stage, s, fps, obj, text) ==
    [stage |-> stage, s |-> s, fps |-> fps, obj |-> obj, text |-> text]

InitRT ==
    /\ tc = New(DefaultArgs).tcv
    /\ rhs = NoOperand
    /\ nops = 0
    /\ last = Did("init", NoOperand, tc, RetNone)
    /\ rt \in { Rt("start", s, fps, NoFrames, <<>>) :
                    s \in RoundTripStrings, fps \in RoundTripFps }

\* Timecode(s, fps)
Parse ==
    /\ rt.stage = "start"
    /\ LET out == __init__(rt.s, rt.fps, None)
       IN  rt' = IF out.kind = "raise" THEN [rt EXCEPT !.stage = "failed"]
                 ELSE [rt EXCEPT !.stage = "parsed", !.obj = out.tcv]
    /\ UNCHANGED <<tc, rhs, last, nops>>

\* .timecode
Render ==
    /\ rt.stage = "parsed"
    /\ rt' = [rt EXCEPT !.stage = "rendered", !.text = _get_timecode(rt.obj)]
    /\ UNCHANGED <<tc, rhs, last, nops>>

NextRT ==
    \/ Parse
    \/ Render

SpecRT == InitRT /\ [][NextRT]_vars

-----------------------------------------------------------------------------
(* Properties *)

IsWholeTimecode(t) == IsWhole(t.fps) /\ t.fps >= Num(1) /\ IsWhole(t.total_frames)

\* hours*fps*3600 + minutes*fps*60 + seconds*fps + frames, from the values read
WeightedSum(t) ==
    Times(_get_hours(t), Times(t.fps, Num(3600)))
        + Times(_get_minutes(t), Times(t.fps, Num(60)))
        + Times(_getSeconds(t), t.fps)
        + get_frames(t)

ComponentOps == {"hours", "minutes", "seconds", "frames"}

\* C1: add(a, b) and sub(a, b), for b a Timecode, an integer or a timecode
\* string, return a new Timecode at a's fps whose total_frames is
\* a.total_frames + coerce(b), respectively a.total_frames - coerce(b), for all
\* operand values, a result of 0 included.
C1_AddSubFrames ==
    (last.op \in {"add", "sub"} /\ _frames_from_unknown(tc, rhs).kind = "num") =>
        LET b == _frames_from_unknown(tc, rhs).num
        IN  /\ last.out.kind = "Timecode"
            /\ last.out.tcv.fps = tc.fps
            /\ last.out.tcv.total_frames =
                   IF last.op = "add" THEN tc.total_frames + b ELSE tc.total_frames - b

\* C2: after construction at a whole fps >= 1 and any sequence of component
\* writes, the values read back satisfy total_frames = hours*fps*3600 +
\* minutes*fps*60 + seconds*fps + frames with 0 <= minutes < 60,
\* 0 <= seconds < 60 and 0 <= frames < fps.
C2_WeightInvariant ==
    IsWholeTimecode(tc) =>
        /\ tc.total_frames = WeightedSum(tc)
        /\ Num(0) <= _get_minutes(tc) /\ _get_minutes(tc) < Num(60)
        /\ Num(0) <= _getSeconds(tc) /\ _getSeconds(tc) < Num(60)
        /\ Num(0) <= get_frames(tc) /\ get_frames(tc) < tc.fps

C2_Witness ==
    /\ last.op \in ComponentOps
    /\ IsWholeTimecode(tc)
    /\ tc.total_frames < 0
    /\ _get_hours(tc) < 0
    /\ _get_minutes(tc) > 0
    /\ tc.total_frames = WeightedSum(tc)

\* C3: div(a, b) fails with a division-by-zero error when b is the number 0
\* and when b is a Timecode constructed with total_frames = 0; no quotient
\* and no Timecode is returned.
C3_DivByZeroFails ==
    ( /\ last.op = "div"
      /\ \/ rhs.type = "int" /\ rhs.num = 0
         \/ rhs.type = "Timecode" /\ rhs.args.total_frames = Some(Num(0)) )
        => last.out = Raise("ZeroDivisionError")

\* C4: for Timecodes a and b with b.total_frames # 0, mod(a, b) returns a new
\* Timecode at a's fps whose total_frames is a.total_frames % b.total_frames,
\* a remainder of 0 included.
C4_ModFrames ==
    (last.op = "mod" /\ rhs.type = "Timecode" /\ rhs.tcv.total_frames # 0) =>
        /\ last.out.kind = "Timecode"
        /\ last.out.tcv.fps = tc.fps
        /\ last.out.tcv.total_frames = Mod(tc.total_frames, rhs.tcv.total_frames)

\* C5: for a Timecode with whole fps >= 1 and total_frames >= 0, writing
\* minutes := v with v >= 0 makes the next reads return
\* hours = old hours + (v div 60), minutes = v mod 60, seconds and frames
\* unchanged; 00:00:05:04 at 24 fps with minutes set to 70 reads 01:10:05:04.
C5_Example == [total_frames |-> Num(124), fps |-> Num(DefaultFps)]

C6_Read(op, t) ==
    IF op = "hours" THEN _get_hours(t)
    ELSE IF op = "minutes" THEN _get_minutes(t)
    ELSE IF op = "seconds" THEN _getSeconds(t)
    ELSE get_frames(t)

C6_Weight(op, t) ==
    IF op = "hours" THEN Times(t.fps, Num(3600))
    ELSE IF op = "minutes" THEN Times(t.fps, Num(60))
    ELSE IF op = "seconds" THEN t.fps
    ELSE Num(1)

C6_Canonical(op, t, v) ==
    /\ IsWhole(v)
    /\ op \in {"minutes", "seconds"} => (Num(0) <= v /\ v < Num(60))
    /\ op = "frames" => (Num(0) <= v /\ v < t.fps)

C6_SingleFieldWrite ==
    ( /\ last.op \in ComponentOps
      /\ IsWholeTimecode(last.pre)
      /\ C6_Canonical(last.op, last.pre, last.arg) ) =>
        /\ tc.total_frames - last.pre.total_frames =
               Times(last.arg - C6_Read(last.op, last.pre), C6_Weight(last.op, last.pre))
        /\ C6_Read(last.op, tc) = last.arg
        /\ \A c \in ComponentOps \ {last.op} : C6_Read(c, tc) = C6_Read(c, last.pre)
        /\ tc.fps = last.pre.fps

C6_Witness ==
    /\ last.op = "seconds"
    /\ IsWholeTimecode(last.pre)
    /\ last.pre.total_frames < 0
    /\ last.arg = Num(59)
    /\ _getSeconds(last.pre) # Num(59)
    /\ _getSeconds(tc) = Num(59)
    /\ tc.total_frames # last.pre.total_frames

\* C7: for every valid HH:MM:SS:FF string s (two-digit fields, MM < 60,
\* SS < 60) and whole fps >= 1 with FF < fps, rendering the frame count
\* parsed from s at fps gives back s.
C7_Field(s, k) == IntOfStr(SubSeq(s, 3 * k - 2, 3 * k - 1))

C7_Valid(s, fps) ==
    /\ C7_Field(s, 2) < 60
    /\ C7_Field(s, 3) < 60
    /\ Num(C7_Field(s, 4)) < fps

C7_RoundTrip ==
    (rt.stage = "rendered" /\ C7_Valid(rt.s, rt.fps)) => rt.text = rt.s

C7_Witness ==
    /\ rt.stage = "rendered"
    /\ C7_Valid(rt.s, rt.fps)
    /\ rt.s = <<"6", "9", ":", "2", "9", ":", "0", "9", ":", "2", "0">>
    /\ rt.fps = Num(DefaultFps)
    /\ rt.obj.total_frames = Num(((69 * 60 + 29) * 60 + 9) * 24 + 20)
    /\ rt.text = rt.s

\* C8: each of the six comparisons of two Timecodes returns the result of the
\* same comparison of their total_frames, whatever their fps; Timecodes with
\* equal total_frames and different fps compare equal and not unequal.
C8_Expected(op, x, y) ==
    IF op = "lt" THEN x < y
    ELSE IF op = "le" THEN x <= y
    ELSE IF op = "eq" THEN x = y
    ELSE IF op = "ne" THEN x # y
    ELSE IF op = "gt" THEN x > y
    ELSE x >= y

C8_CompareByFrames ==
    (last.op \in {"lt", "le", "eq", "ne", "gt", "ge"} /\ rhs.type = "Timecode") =>
        /\ last.out.kind = "bool"
        /\ last.out.bool = C8_Expected(last.op, tc.total_frames, rhs.tcv.total_frames)

C8_Witness ==
    /\ last.op = "eq"
    /\ rhs.type = "Timecode"
    /\ tc = [total_frames |-> Num(240), fps |-> Num(DefaultFps)]
    /\ rhs.tcv = [total_frames |-> Num(240), fps |-> Num(30)]
    /\ last.out = RetBool(TRUE)

C10_RateWritePreservesFrames ==
    last.op \in {"fps", "fpm", "fph"} =>
        /\ tc.total_frames = last.pre.total_frames
        /\ last.op = "fps" => tc.fps = last.arg
        /\ last.op = "fpm" => Times(tc.fps, Num(60)) = last.arg
        /\ last.op = "fph" => Times(tc.fps, Num(3600)) = last.arg
        /\ WeightedSum(tc) = last.pre.total_frames

C10_Witness ==
    /\ last.op = "fpm"
    /\ tc.fps # last.pre.fps
    /\ ~IsWhole(tc.fps)
    /\ tc.total_frames = last.pre.total_frames
    /\ _get_timecode(tc) # _get_timecode(last.pre)

====
